---------------------------- MODULE Spec2Model ----------------------------
(***************************************************************************)
(* Model of the VDM MCU frame codec of protocol.h:                         *)
(*   [SYNC1 0xAA][SYNC2 0x55][VER][TYPE][SEQ][CMD_H][CMD_L][LEN_H][LEN_L]  *)
(*   [DATA...][CRC_H][CRC_L]                                               *)
(* Memory is a sequence of bytes; the byte at C offset k of a sequence b   *)
(* is b[k + 1].  uint8_t and uint16_t values are naturals reduced modulo   *)
(* 2^8 and 2^16 wherever the C code stores them in a variable of that      *)
(* type.                                                                   *)
(***************************************************************************)
EXTENDS Integers, Sequences, FiniteSets, TLC

(* ------------------------- frame format constants --------------------- *)
FRAME_SYNC1 == 170
FRAME_SYNC2 == 85
FRAME_VERSION == 16
FRAME_HEADER_SIZE == 9
FRAME_CRC_SIZE == 2
FRAME_MIN_SIZE == 11
FRAME_MAX_DATA_SIZE == 65535

OFFSET_SYNC1 == 0
OFFSET_SYNC2 == 1
OFFSET_VER == 2
OFFSET_TYPE == 3
OFFSET_SEQ == 4
OFFSET_CMD_H == 5
OFFSET_CMD_L == 6
OFFSET_LEN_H == 7
OFFSET_LEN_L == 8
OFFSET_DATA == 9

TYPE_REQUEST == 0
TYPE_RESPONSE == 1
TYPE_NOTIFY == 2
TYPE_ACK == 3
TYPE_NACK == 4
TYPE_PASSTHROUGH_MIN == 128

CMD_MOTOR_ROTATE == 12289
CMD_DEV_GET_STATE == 20496
ERR_DEVICE_BUSY == 3
ERR_CRC_ERROR == 7

(* ------------------------- machine integers --------------------------- *)
\* conversion to uint8_t
U8(x) == x % 256

\* conversion to uint16_t
U16(x) == x % 65536

\* the null pointer: a value different from every byte array
NULL == << -1 >>

\* the byte at C offset off of the memory b
at(b, off) == b[off + 1]

\* b after the C assignment b[off] = val
store(b, off, val) == [b EXCEPT ![off + 1] = val]

\* bitwise exclusive or of two naturals, bit by bit
RECURSIVE xor_bits(_, _)
xor_bits(a, b) ==
    IF a = 0 THEN b
    ELSE IF b = 0 THEN a
    ELSE ((a + b) % 2) + 2 * xor_bits(a \div 2, b \div 2)

\* the exclusive or of two bytes, tabulated
XorByte == [a \in 0..255 |-> [b \in 0..255 |-> xor_bits(a, b)]]

\* the C operator ^ on two uint16_t values, byte by byte
Xor(a, b) ==
    XorByte[a % 256][b % 256] + 256 * XorByte[a \div 256][b \div 256]

\* big-endian bytes in[off], in[off+1] to uint16_t
be_to_u16(in, off) == at(in, off) * 256 + at(in, off + 1)

(* ------------------------- CRC-16/MODBUS ------------------------------ *)
\* the initial value of the CRC register
CrcInit == 65535

\* the reflected polynomial
CrcPoly == 40961

\* the inner loop: j shift steps on the register
RECURSIVE crc_bits(_, _)
crc_bits(crc, j) ==
    IF j = 0 THEN crc
    ELSE crc_bits(IF crc % 2 = 1 THEN Xor(crc \div 2, CrcPoly)
                                 ELSE crc \div 2, j - 1)

\* (mutant) the inner loop stops one step early
crc_byte_short(crc, byte) == crc_bits(Xor(crc, byte), 7)

\* one iteration of the outer loop: crc ^= byte, then 8 shift steps
crc_byte(crc, byte) == crc_bits(Xor(crc, byte), 8)

\* the outer loop over the offsets lo .. hi-1 of data, in increasing order
\* (the range is halved so that the evaluation depth stays logarithmic)
RECURSIVE crc_loop(_, _, _, _)
crc_loop(crc, data, lo, hi) ==
    IF lo >= hi THEN crc
    ELSE IF hi - lo = 1 THEN crc_byte(crc, at(data, lo))
    ELSE LET mid == lo + ((hi - lo) \div 2)
             left == crc_loop(crc, data, lo, mid)
         IN IF left >= 0 THEN crc_loop(left, data, mid, hi) ELSE left

\* crc16_modbus(&b[start], len)
crc16_modbus(b, start, len) == crc_loop(CrcInit, b, start, start + len)


(* ------------------------- sequence generator ------------------------- *)
\* (mutant) pre-increment: the incremented value is returned
next_seq_pre(c) == [ret |-> U8(c + 1), counter |-> U8(c + 1)]

\* (mutant) the counter is read and never stored back
next_seq_stuck(c) == [ret |-> c, counter |-> c]

\* next_seq() on the counter value c: the value returned and the counter
\* after the post-increment of the uint8_t
next_seq(c) == [ret |-> c, counter |-> U8(c + 1)]

(* ------------------------- frame construction ------------------------- *)
\* m after memcpy(&m[off], src, n)
memcpy(m, off, src, n) ==
    SubSeq(m, 1, off) \o SubSeq(src, 1, n) \o SubSeq(m, off + n + 1, Len(m))

\* build_frame(&m[p], type, seq, cmd, data, data_len): the memory after the
\* call and the value returned.  data is NULL or a byte array of at least
\* data_len bytes.
build_frame(m, p, type, seq, cmd, data, data_len) ==
    LET b1 == store(m, p + OFFSET_SYNC1, FRAME_SYNC1)
        b2 == store(b1, p + OFFSET_SYNC2, FRAME_SYNC2)
        b3 == store(b2, p + OFFSET_VER, FRAME_VERSION)
        b4 == store(b3, p + OFFSET_TYPE, type)
        b5 == store(b4, p + OFFSET_SEQ, seq)
        b6 == store(b5, p + OFFSET_CMD_H, (cmd \div 256) % 256)
        b7 == store(b6, p + OFFSET_CMD_L, cmd % 256)
        b8 == store(b7, p + OFFSET_LEN_H, (data_len \div 256) % 256)
        b9 == store(b8, p + OFFSET_LEN_L, data_len % 256)
        b10 == IF data # NULL /\ data_len > 0
               THEN memcpy(b9, p + OFFSET_DATA, data, data_len)
               ELSE b9
        crc_len == U16(7 + data_len)
        crc == crc16_modbus(b10, p + OFFSET_VER, crc_len)
        b11 == store(b10, p + OFFSET_DATA + data_len, (crc \div 256) % 256)
        b12 == store(b11, p + OFFSET_DATA + data_len + 1, crc % 256)
    IN [buf |-> b12,
        ret |-> FRAME_HEADER_SIZE + data_len + FRAME_CRC_SIZE]

\* build_request on the counter value c: the frame, the value returned and
\* the counter afterwards
build_request(m, p, c, cmd, data, data_len) ==
    LET s == next_seq(c)
        r == build_frame(m, p, TYPE_REQUEST, s.ret, cmd, data, data_len)
    IN [buf |-> r.buf, ret |-> r.ret, counter |-> s.counter]

\* (mutant) the ACK takes a fresh sequence number instead of the peer's
build_ack_fresh(m, p, c, seq, cmd) ==
    LET s == next_seq(c)
        r == build_frame(m, p, TYPE_ACK, s.ret, cmd, NULL, 0)
    IN [buf |-> r.buf, ret |-> r.ret, counter |-> s.counter]

build_ack(m, p, c, seq, cmd) ==
    LET r == build_frame(m, p, TYPE_ACK, seq, cmd, NULL, 0)
    IN [buf |-> r.buf, ret |-> r.ret, counter |-> c]

build_response(m, p, c, seq, cmd, data, data_len) ==
    LET r == build_frame(m, p, TYPE_RESPONSE, seq, cmd, data, data_len)
    IN [buf |-> r.buf, ret |-> r.ret, counter |-> c]

build_nack(m, p, c, seq, cmd, error_code) ==
    LET r == build_frame(m, p, TYPE_NACK, seq, cmd, <<error_code>>, 1)
    IN [buf |-> r.buf, ret |-> r.ret, counter |-> c]

(* ------------------------- frame parsing ------------------------------ *)
check_sync(m, p) == at(m, p) = FRAME_SYNC1 /\ at(m, p + 1) = FRAME_SYNC2

\* the header fields of the frame at m[p], stored into frame
header_of(m, p, frame) ==
    [frame EXCEPT !.version = at(m, p + OFFSET_VER),
                  !.type = at(m, p + OFFSET_TYPE),
                  !.seq = at(m, p + OFFSET_SEQ),
                  !.cmd = be_to_u16(m, p + OFFSET_CMD_H),
                  !.len = be_to_u16(m, p + OFFSET_LEN_H)]

\* (mutant) the sync bytes are checked before the length
parse_frame_sync_first(m, p, buf_len, frame) ==
    IF ~check_sync(m, p) THEN [ret |-> -2, frame |-> frame]
    ELSE IF buf_len < FRAME_MIN_SIZE THEN [ret |-> -1, frame |-> frame]
    ELSE LET f1 == header_of(m, p, frame)
         IN IF buf_len < FRAME_HEADER_SIZE + f1.len + FRAME_CRC_SIZE
            THEN [ret |-> -3, frame |-> f1]
            ELSE [ret |-> FRAME_HEADER_SIZE + f1.len + FRAME_CRC_SIZE,
                  frame |-> [f1 EXCEPT
                      !.data = p + OFFSET_DATA,
                      !.crc = be_to_u16(m, p + OFFSET_DATA + f1.len)]]

\* (mutant) the header is stored before the sync bytes are checked
parse_frame_early(m, p, buf_len, frame) ==
    IF buf_len < FRAME_MIN_SIZE THEN [ret |-> -1, frame |-> frame]
    ELSE LET f1 == header_of(m, p, frame)
         IN IF ~check_sync(m, p) THEN [ret |-> -2, frame |-> f1]
            ELSE IF buf_len < FRAME_HEADER_SIZE + f1.len + FRAME_CRC_SIZE
            THEN [ret |-> -3, frame |-> f1]
            ELSE [ret |-> FRAME_HEADER_SIZE + f1.len + FRAME_CRC_SIZE,
                  frame |-> [f1 EXCEPT
                      !.data = p + OFFSET_DATA,
                      !.crc = be_to_u16(m, p + OFFSET_DATA + f1.len)]]

\* parse_frame(&m[p], buf_len, &frame): the value returned and *frame after
\* the call.  frame.data is a pointer, held as an offset into m.
parse_frame(m, p, buf_len, frame) ==
    IF buf_len < FRAME_MIN_SIZE THEN [ret |-> -1, frame |-> frame]
    ELSE IF ~check_sync(m, p) THEN [ret |-> -2, frame |-> frame]
    ELSE LET f1 == header_of(m, p, frame)
         IN IF buf_len < FRAME_HEADER_SIZE + f1.len + FRAME_CRC_SIZE
            THEN [ret |-> -3, frame |-> f1]
            ELSE [ret |-> FRAME_HEADER_SIZE + f1.len + FRAME_CRC_SIZE,
                  frame |-> [f1 EXCEPT
                      !.data = p + OFFSET_DATA,
                      !.crc = be_to_u16(m, p + OFFSET_DATA + f1.len)]]

\* the len bytes frame.data points to in m
payload(m, frame) == SubSeq(m, frame.data + 1, frame.data + frame.len)

(* ------------------------- state -------------------------------------- *)
VARIABLES
    buf,          \* the bytes of the caller's buffer that hold data
    cap,          \* the capacity of the caller's buffer
    wpos,         \* offset in buf behind the last frame built
    rpos,         \* offset in buf of the next frame to parse
    oob,          \* the bytes a call wrote behind the end of buf
    crashed,      \* the program was stopped by an out-of-bounds write
    ret,          \* the value the last call returned
    op,           \* the last call
    sent,         \* the calls of build_frame so far: arguments, offset, result
    frame,        \* the caller's protocol_frame_t
    old_frame,    \* *frame as it was before the last parse_frame
    plen,         \* the buf_len handed to the last parse_frame
    _seq_counter, \* the static uint8_t of the sequence generator
    call,         \* the last builder call: arguments, counter before it
    seq_log,      \* the seq bytes of the request frames built so far
    pc,           \* per thread: where it is in build_request
    tmp,          \* per thread: the counter value its next_seq read
    tbuf,         \* per thread: its own output buffer
    tseq,         \* per thread: the seq bytes of the frames it built
    overlap,      \* some next_seq read the counter between another
                  \* thread's read and write
    crc_out       \* the value the last crc16_modbus returned

codecVars == <<buf, cap, wpos, rpos, oob, crashed, ret, op, sent, frame, old_frame, plen>>
seqVars == <<_seq_counter, call, seq_log>>
mtVars == <<pc, tmp, tbuf, tseq, overlap>>
vars == <<codecVars, seqVars, mtVars, crc_out>>

(* ------------------------- bounds of the model ------------------------ *)
\* the longest payload of the small frames
MaxLen == 2
\* the big payloads have the FRAME_MAX_DATA_SIZE - TopBand .. FRAME_MAX_DATA_SIZE bytes
TopBand == 6
\* capacities of the caller's buffer: one small frame, two small frames,
\* one frame of any size
SmallCap == 12
MidCap == 24
HugeCap == 65546
\* frames built into one buffer
MaxFrames == 2

Threads == {1, 2}
NoCall == [kind |-> "none"]

Types == {TYPE_NOTIFY, TYPE_PASSTHROUGH_MIN}
Seqs == {7, 255}
Cmds == {CMD_MOTOR_ROTATE}
PayloadBytes == {ERR_DEVICE_BUSY, FRAME_SYNC1}
SmallPayloads == UNION {[1..n -> PayloadBytes] : n \in 0..MaxLen}
BigLens == (FRAME_MAX_DATA_SIZE - TopBand)..FRAME_MAX_DATA_SIZE

\* The arguments of build_frame the model draws from.  The
\* payload array is given by a pattern and a length: the array holds the
\* pattern, repeated, cut to the length.
SmallArgs == {[type |-> t, seq |-> q, cmd |-> c, pat |-> d, len |-> Len(d)] :
                 t \in Types, q \in Seqs, c \in Cmds, d \in SmallPayloads}
BigArgs == {[type |-> TYPE_NOTIFY, seq |-> 7, cmd |-> CMD_MOTOR_ROTATE,
             pat |-> <<FRAME_SYNC2>>, len |-> n] : n \in BigLens}
\* (a buffer of HugeCap bytes takes one big frame, then small ones)
Args(c, n) == IF c >= HugeCap /\ n = 0 THEN BigArgs ELSE SmallArgs

\* the payload array of the arguments a
data_of(a) ==
    IF a.len = Len(a.pat) THEN a.pat
    ELSE [i \in 1..a.len |-> a.pat[((i - 1) % Len(a.pat)) + 1]]

\* the caller's frame struct before the first parse_frame
PriorFrame == [version |-> 238, type |-> 238, seq |-> 238, cmd |-> 61166,
               len |-> 61166, data |-> -1, crc |-> 48879]

zeros(n) == [i \in 1..n |-> 0]

(* ------------------------- the codec, one thread ---------------------- *)
InitCommon ==
    /\ wpos = 0 /\ oob = <<>> /\ crashed = FALSE
    /\ ret = 0 /\ op = "init" /\ sent = <<>>
    /\ frame = PriorFrame /\ old_frame = PriorFrame
    /\ _seq_counter = 0 /\ call = NoCall /\ seq_log = <<>>
    /\ pc = [t \in Threads |-> "idle"] /\ tmp = [t \in Threads |-> 0]
    /\ tbuf = [t \in Threads |-> zeros(FRAME_MIN_SIZE)]
    /\ tseq = [t \in Threads |-> <<>>] /\ overlap = FALSE
    /\ crc_out = 0

Init ==
    /\ InitCommon
    /\ rpos = 0 /\ plen = 0
    /\ buf = <<>>
    /\ cap \in {SmallCap, MidCap, HugeCap}

\* build_frame(&buf[wpos], a.type, a.seq, a.cmd, data, a.len) behind the
\* frames already in the buffer; the bytes it writes to are not initialised
\* before (the model holds zeros there, all overwritten).  The function is
\* not told the capacity: a frame longer than the room left is written
\* behind the end of the buffer, which either clobbers the memory there or
\* stops the program.
BuildFrame(a) ==
    /\ oob = <<>> /\ ~crashed
    /\ Len(sent) < MaxFrames
    /\ LET total == FRAME_HEADER_SIZE + a.len + FRAME_CRC_SIZE
       IN \E r \in {build_frame(buf \o zeros(total), wpos, a.type, a.seq,
                                a.cmd, data_of(a), a.len)} :
          /\ buf' = SubSeq(r.buf, 1, IF Len(r.buf) < cap THEN Len(r.buf)
                                                         ELSE cap)
          /\ oob' = SubSeq(r.buf, cap + 1, Len(r.buf))
          /\ ret' = r.ret
          /\ sent' = Append(sent, a @@
                                  [off |-> wpos, ret |-> r.ret])
          /\ wpos' = wpos + r.ret
          /\ crashed' \in (IF wpos + total > cap THEN BOOLEAN ELSE {FALSE})
    /\ op' = "build_frame"
    /\ UNCHANGED <<cap, rpos, frame, old_frame, plen, seqVars, mtVars, crc_out>>

\* parse_frame(&buf[rpos], buf_len, &frame)
ParseFrame(buf_len) ==
    /\ oob = <<>> /\ ~crashed
    /\ buf_len <= Len(buf) - rpos
    /\ \E r \in {parse_frame(buf, rpos, buf_len, frame)} :
          /\ ret' = r.ret
          /\ frame' = r.frame
    /\ old_frame' = frame
    /\ plen' = buf_len
    /\ op' = "parse_frame"
    /\ UNCHANGED <<buf, cap, wpos, rpos, oob, crashed, sent, seqVars, mtVars,
                   crc_out>>

\* the caller steps over the frame just parsed
Advance ==
    /\ op = "parse_frame" /\ ret > 0
    /\ rpos' = rpos + ret
    /\ op' = "advance"
    /\ UNCHANGED <<buf, cap, wpos, oob, crashed, ret, sent, frame, old_frame,
                   plen, seqVars, mtVars, crc_out>>

\* the buf_len values the caller hands to parse_frame: the value the last
\* build_frame returned and the number of bytes from rpos to wpos, each
\* converted to the uint16_t of the parameter, and the number of bytes from
\* rpos to wpos cut down to the largest value the parameter holds
CallerLens == {U16(wpos - rpos),
               IF wpos - rpos > 65535 THEN 65535 ELSE wpos - rpos} \cup
              (IF sent = <<>> THEN {} ELSE {U16(sent[Len(sent)].ret)})

Next ==
    \/ \E a \in Args(cap, Len(sent)) : BuildFrame(a)
    \/ \E n \in CallerLens : ParseFrame(n)
    \/ Advance

Spec == Init /\ [][Next]_vars

(* ------------------------- the builders and the counter --------------- *)
\* capacity of the buffer the builders write to
SeqCap == 13
\* calls of build_request in one run
MaxCalls == 258

ReqData == {NULL, <<1>>, <<32, 1>>}
RespData == {<<1>>}
ErrorCodes == {ERR_DEVICE_BUSY, ERR_CRC_ERROR}
data_len_of(data) == IF data = NULL THEN 0 ELSE Len(data)

InitSeq ==
    /\ InitCommon
    /\ rpos = 0 /\ plen = 0
    /\ buf = zeros(SeqCap) /\ cap = SeqCap

\* Each builder is handed a cleared buffer of SeqCap bytes.

\* build_request(buf, cmd, data, data_len)
BuildRequest(cmd, data) ==
    /\ Len(seq_log) < MaxCalls
    /\ \E r \in {build_request(zeros(SeqCap), 0, _seq_counter, cmd, data,
                                data_len_of(data))} :
          /\ buf' = r.buf
          /\ ret' = r.ret
          /\ _seq_counter' = r.counter
          /\ seq_log' = Append(seq_log, at(r.buf, OFFSET_SEQ))
    /\ call' = [kind |-> "request", cmd |-> cmd, data |-> data,
                counter |-> _seq_counter]
    /\ op' = "build_request"
    /\ UNCHANGED <<cap, wpos, rpos, oob, crashed, sent, frame, old_frame, plen,
                   mtVars, crc_out>>

\* build_ack(buf, seq, cmd)
BuildAck(seq, cmd) ==
    /\ \E r \in {build_ack(zeros(SeqCap), 0, _seq_counter, seq, cmd)} :
          /\ buf' = r.buf
          /\ ret' = r.ret
          /\ _seq_counter' = r.counter
    /\ call' = [kind |-> "ack", seq |-> seq, cmd |-> cmd,
                counter |-> _seq_counter]
    /\ op' = "build_ack"
    /\ UNCHANGED <<cap, wpos, rpos, oob, crashed, sent, frame, old_frame, plen,
                   seq_log, mtVars, crc_out>>

\* build_response(buf, seq, cmd, data, data_len)
BuildResponse(seq, cmd, data) ==
    /\ \E r \in {build_response(zeros(SeqCap), 0, _seq_counter, seq, cmd,
                               data, data_len_of(data))} :
          /\ buf' = r.buf
          /\ ret' = r.ret
          /\ _seq_counter' = r.counter
    /\ call' = [kind |-> "response", seq |-> seq, cmd |-> cmd, data |-> data,
                counter |-> _seq_counter]
    /\ op' = "build_response"
    /\ UNCHANGED <<cap, wpos, rpos, oob, crashed, sent, frame, old_frame, plen,
                   seq_log, mtVars, crc_out>>

\* build_nack(buf, seq, cmd, error_code)
BuildNack(seq, cmd, error_code) ==
    /\ \E r \in {build_nack(zeros(SeqCap), 0, _seq_counter, seq, cmd,
                             error_code)} :
          /\ buf' = r.buf
          /\ ret' = r.ret
          /\ _seq_counter' = r.counter
    /\ call' = [kind |-> "nack", seq |-> seq, cmd |-> cmd,
                error_code |-> error_code, counter |-> _seq_counter]
    /\ op' = "build_nack"
    /\ UNCHANGED <<cap, wpos, rpos, oob, crashed, sent, frame, old_frame, plen,
                   seq_log, mtVars, crc_out>>

NextSeq ==
    \/ \E cmd \in Cmds, data \in ReqData : BuildRequest(cmd, data)
    \/ \E seq \in Seqs, cmd \in Cmds : BuildAck(seq, cmd)
    \/ \E seq \in Seqs, cmd \in Cmds, data \in RespData :
           BuildResponse(seq, cmd, data)
    \/ \E seq \in Seqs, cmd \in Cmds, e \in ErrorCodes : BuildNack(seq, cmd, e)

SpecSeq == InitSeq /\ [][NextSeq]_vars

(* ------------------------- parse_frame on received bytes -------------- *)
\* bytes behind the header in the received buffers
RxTail == 5

RxTails == {[i \in 1..RxTail |-> 17 * i], zeros(RxTail)}
RxBuffers ==
    {<<s1, s2, v, TYPE_RESPONSE, 7, 48, 1, lh, ll>> \o t :
        s1 \in {FRAME_SYNC1, FRAME_SYNC2, 0}, s2 \in {FRAME_SYNC2, FRAME_SYNC1},
        v \in {FRAME_VERSION, 0}, lh \in {0, 255}, ll \in {0, 1, 2, 3, 4, 255},
        t \in RxTails}

InitRx ==
    /\ InitCommon
    /\ rpos = 0 /\ plen = 0
    /\ buf \in RxBuffers /\ cap = Len(buf)

NextRx == \E n \in 0..Len(buf) : ParseFrame(n)

SpecRx == InitRx /\ [][NextRx]_vars

(* ------------------------- crc16_modbus on byte ranges ---------------- *)
\* the longest enumerated input of the checksum
CrcMaxLen == 3

CheckString == <<49, 50, 51, 52, 53, 54, 55, 56, 57>>
CrcInputs == {CheckString} \cup
             UNION {[1..n -> {0, 49, 255}] : n \in 0..CrcMaxLen}
\* the memory around the range handed to crc16_modbus
CrcBefore == {<<>>, <<FRAME_SYNC1, FRAME_SYNC2>>}
CrcAfter == {<<>>, <<255, 1>>}

InitCrc ==
    /\ InitCommon
    /\ \E d \in CrcInputs, x \in CrcBefore, y \in CrcAfter :
           /\ buf = x \o d \o y
           /\ cap = Len(buf)
           /\ rpos = Len(x)
           /\ plen = Len(d)

\* crc16_modbus(&buf[rpos], plen)
Checksum ==
    /\ op = "init"
    /\ crc_out' = crc16_modbus(buf, rpos, plen)
    /\ op' = "crc16_modbus"
    /\ UNCHANGED <<buf, cap, wpos, rpos, oob, crashed, ret, sent, frame,
                   old_frame, plen, seqVars, mtVars>>

NextCrc == Checksum

SpecCrc == InitCrc /\ [][NextCrc]_vars

(* ------------------------- build_request from two threads ------------- *)
\* calls of build_request by one thread
MaxReqs == 2

InitMT ==
    /\ InitCommon
    /\ rpos = 0 /\ plen = 0
    /\ buf = <<>> /\ cap = 0

\* thread t enters build_request; next_seq loads the counter
MTRead(t) ==
    /\ pc[t] = "idle"
    /\ Len(tseq[t]) < MaxReqs
    /\ tmp' = [tmp EXCEPT ![t] = _seq_counter]
    /\ pc' = [pc EXCEPT ![t] = "read"]
    /\ overlap' = (overlap \/ \E u \in Threads \ {t} : pc[u] # "idle")
    /\ UNCHANGED <<codecVars, seqVars, tbuf, tseq, crc_out>>

\* next_seq stores the incremented value
MTWrite(t) ==
    /\ pc[t] = "read"
    /\ _seq_counter' = next_seq(tmp[t]).counter
    /\ pc' = [pc EXCEPT ![t] = "written"]
    /\ UNCHANGED <<codecVars, call, seq_log, tmp, tbuf, tseq, overlap, crc_out>>

\* build_frame with the value next_seq returned; build_request returns
MTBuild(t, cmd, data) ==
    /\ pc[t] = "written"
    /\ \E r \in {build_frame(tbuf[t], 0, TYPE_REQUEST, next_seq(tmp[t]).ret,
                            cmd, data, data_len_of(data))} :
          /\ tbuf' = [tbuf EXCEPT ![t] = r.buf]
          /\ tseq' = [tseq EXCEPT ![t] = Append(@, at(r.buf, OFFSET_SEQ))]
    /\ pc' = [pc EXCEPT ![t] = "idle"]
    /\ UNCHANGED <<codecVars, seqVars, tmp, overlap, crc_out>>

NextMT ==
    \/ \E t \in Threads : MTRead(t)
    \/ \E t \in Threads : MTWrite(t)
    \/ \E t \in Threads, cmd \in Cmds : MTBuild(t, cmd, NULL)

SpecMT == InitMT /\ [][NextMT]_vars

(* ------------------------- the claims: Spec --------------------------- *)
\* the last call of build_frame
last_sent == sent[Len(sent)]

\* the length of a frame with len payload bytes
frame_size(len) == FRAME_HEADER_SIZE + len + FRAME_CRC_SIZE

\* parse_frame was just called on the frame the last build_frame wrote, with
\* the value build_frame returned as its buf_len argument
ParsedLastBuilt ==
    /\ op = "parse_frame"
    /\ sent # <<>>
    /\ rpos = last_sent.off
    /\ plen = U16(last_sent.ret)

\* parse_frame returned the frame s: its length, its fields and its payload
Yields(s) ==
    /\ ret = frame_size(s.len)
    /\ frame.type = s.type
    /\ frame.seq = s.seq
    /\ frame.cmd = s.cmd
    /\ frame.len = s.len
    /\ payload(buf, frame) = data_of(s)

\* C1: parse_frame on the buffer build_frame wrote, with buf_len the value
\* build_frame returned, succeeds, returns 9+len+2 and yields the type, seq,
\* cmd, len and payload bytes that were built, for every payload of 0..65535
\* bytes.
C1_RoundTrip == ParsedLastBuilt => Yields(last_sent)

\* The round trip of the frames whose length fits the uint16_t buf_len.
RoundTripFits ==
    (ParsedLastBuilt /\ last_sent.ret <= 65535) => Yields(last_sent)

\* C3: the two bytes build_frame writes behind the payload are the big-endian
\* CRC-16/MODBUS of the 7+len bytes at offsets [2 .. 9+len) of the frame, for
\* every payload of 0..65535 bytes.
C3_ChecksumRange ==
    (op = "build_frame" /\ oob = <<>>) =>
        be_to_u16(buf, last_sent.off + OFFSET_DATA + last_sent.len)
            = crc16_modbus(buf, last_sent.off + OFFSET_VER,
                           7 + last_sent.len)

\* The checksum of the frames whose 7+len fits the uint16_t crc_len.
ChecksumRangeFits ==
    (op = "build_frame" /\ oob = <<>> /\ 7 + last_sent.len <= 65535) =>
        be_to_u16(buf, last_sent.off + OFFSET_DATA + last_sent.len)
            = crc16_modbus(buf, last_sent.off + OFFSET_VER,
                           7 + last_sent.len)

\* C4: build_frame on a buffer with less than 9+len+2 bytes of room fails
\* with a capacity error and writes no byte outside the buffer; it returns
\* the frame length only when the buffer holds the whole frame.
C4_CapacityChecked ==
    (op = "build_frame"
       /\ last_sent.off + frame_size(last_sent.len) > cap) =>
        (ret < 0 /\ oob = <<>> /\ ~crashed)

\* the frame built at offset rpos of the buffer, if any
FramesAt(off) == {k \in 1..Len(sent) : sent[k].off = off}

\* C10: in a buffer that is the concatenation of frames built by build_frame,
\* parse_frame at the offset of a frame, handed all the bytes from there to
\* the end of the data, returns what it returns on that frame alone: the
\* frame's fields, payload, crc and length; and stepping by the returned
\* length visits each frame and ends at the end of the data.
C10_Stream ==
    /\ (op = "parse_frame"
          /\ plen \in {U16(wpos - rpos),
                       IF wpos - rpos > 65535 THEN 65535 ELSE wpos - rpos}) =>
           \A k \in FramesAt(rpos) :
               /\ Yields(sent[k])
               /\ parse_frame(buf, rpos, U16(sent[k].ret), old_frame)
                      = [ret |-> ret, frame |-> frame]
    /\ (op = "advance") =>
           (rpos = wpos \/ FramesAt(rpos) # {})

\* The stream of a buffer whose data fit the uint16_t buf_len.
StreamFits == (wpos <= 65535) => C10_Stream

(* ------------------------- the claims: SpecSeq ------------------------ *)
\* C5: from counter 0, the k-th call of next_seq returns (k-1) mod 256: a
\* call returns the counter and then increments it, 255 is followed by 0, the
\* seq bytes of successive request frames are consecutive modulo 256, and a
\* request frame's seq differs from those of the 255 requests before it.
C5_Sequence ==
    LET n == Len(seq_log)
    IN /\ _seq_counter = n % 256
       /\ \A k \in 1..n : seq_log[k] = (k - 1) % 256
       /\ \A k \in 2..n : seq_log[k] = (seq_log[k - 1] + 1) % 256
       /\ \A i \in 1..(n - 1) : (n - i < 256) => seq_log[i] # seq_log[n]
       /\ (op = "build_request") =>
              /\ seq_log[n] = call.counter
              /\ _seq_counter = (IF call.counter = 255 THEN 0
                                                       ELSE call.counter + 1)

\* C5 witness: the 256th request carried 255 and the 257th carried 0
C5_Wrapped ==
    /\ Len(seq_log) = 257
    /\ seq_log[256] = 255
    /\ seq_log[257] = 0
    /\ _seq_counter = 1

C2_Order ==
    (op = "parse_frame") =>
        LET len == at(buf, 7) * 256 + at(buf, 8)
            sync == at(buf, 0) = 170 /\ at(buf, 1) = 85
        IN /\ (ret = -1) <=> (plen < 11)
           /\ (plen >= 11) => ((ret = -2) <=> ~sync)
           /\ (plen >= 11 /\ sync) => ((ret = -3) <=> (plen < 9 + len + 2))
           /\ (plen >= 11 /\ sync /\ plen >= 9 + len + 2) =>
                  ret = 9 + len + 2

\* C2 witness: a frame with a version byte other than 0x10 and trailing
\* bytes was parsed
C2_OtherVersionParsed ==
    /\ op = "parse_frame"
    /\ at(buf, 2) # 16
    /\ ret = 12
    /\ plen > ret

\* C9: a parse_frame that returns -1 or -2 has written no field of *frame;
\* one that returns -3 has stored the header's version, type, seq, cmd and
\* len and has left data and crc as they were.
C9_FrameOnFailure ==
    (op = "parse_frame") =>
        /\ (ret \in {-1, -2}) => frame = old_frame
        /\ (ret = -3) =>
               /\ frame.version = at(buf, 2)
               /\ frame.type = at(buf, 3)
               /\ frame.seq = at(buf, 4)
               /\ frame.cmd = at(buf, 5) * 256 + at(buf, 6)
               /\ frame.len = at(buf, 7) * 256 + at(buf, 8)
               /\ frame.data = old_frame.data
               /\ frame.crc = old_frame.crc

\* C9 witness: an incomplete buffer changed the header fields of a frame
\* struct and kept its data and crc
C9_HeaderOverwritten ==
    /\ op = "parse_frame"
    /\ ret = -3
    /\ frame.version # old_frame.version
    /\ frame.len # old_frame.len
    /\ frame.data = old_frame.data
    /\ frame.crc = old_frame.crc

(* ------------------------- the claims: SpecCrc ------------------------ *)
\* the bytes handed to crc16_modbus
crc_in == SubSeq(buf, rpos + 1, rpos + plen)

\* C8: crc16_modbus returns 0xFFFF for the empty range and 0x4B37 for the
\* ASCII bytes "123456789", and its value is that of the same bytes taken
\* alone: it depends on the bytes of the range only.
C8_Crc ==
    (op = "crc16_modbus") =>
        /\ crc_out \in 0..65535
        /\ (plen = 0) => crc_out = 65535
        /\ (crc_in = <<49, 50, 51, 52, 53, 54, 55, 56, 57>>) =>
               crc_out = 19255
        /\ crc_out = crc16_modbus(crc_in, 0, plen)

\* C8 witness: the check string, inside a longer buffer, gave 0x4B37
C8_CheckValue ==
    /\ op = "crc16_modbus"
    /\ rpos > 0 /\ rpos + plen < Len(buf)
    /\ crc_in = <<49, 50, 51, 52, 53, 54, 55, 56, 57>>
    /\ crc_out = 19255

(* ------------------------- the claims: SpecMT ------------------------- *)
\* the increments thread t has stored
stored(t) == Len(tseq[t]) + (IF pc[t] = "written" THEN 1 ELSE 0)

\* the frames built: thread and index
Built == {<<t, k>> \in Threads \X (1..MaxReqs) : k <= Len(tseq[t])}

\* two frames carry the same seq
Duplicate ==
    \E x \in Built, y \in Built : x # y /\ tseq[x[1]][x[2]] = tseq[y[1]][y[2]]

\* C6: as long as no call of build_request has started while another was
\* running, every increment is counted and no two frames carry the same seq;
\* a duplicate seq or a lost increment needs calls that interleave.
C6_SingleThreaded ==
    (~overlap) =>
        /\ _seq_counter = (stored(1) + stored(2)) % 256
        /\ ~Duplicate

\* C6 witness: two interleaved calls built two frames with the same seq and
\* the counter went from 0 to 1
C6_LostUpdate ==
    /\ overlap
    /\ \A t \in Threads : pc[t] = "idle" /\ Len(tseq[t]) = 1
    /\ at(tbuf[1], 4) = at(tbuf[2], 4)
    /\ tseq[1][1] = tseq[2][1]
    /\ _seq_counter = 1

=============================================================================
